---- MODULE Spec2Model ----
(***************************************************************************)
(* Model of the answer-sheet alignment session (class AnswerSheetAligner,  *)
(* src/js/answer-sheet-aligner.js).                                        *)
(*                                                                         *)
(* The aligner's public operations run to completion without suspension    *)
(* (their bodies contain no await), so each is one action.  The OpenCV.js  *)
(* library is the environment: every library call may throw, and what the  *)
(* detectors find in an image is chosen by an oracle record `o`.           *)
(* A thrown value is modelled as an Error object carrying a message.       *)
(*                                                                         *)
(* Spec drives the aligner by its three public operations.  SpecFallback,  *)
(* SpecPreprocessor and SpecDetector call one method each on its own,      *)
(* SpecWithPreprocessor adds direct preprocessImage calls to Spec, and     *)
(* SpecTemplates gives every template image its own frame of corners.      *)
(* SpecHost is the page (src/js/main.js) driving the aligner through its   *)
(* upload, alignment and recognition handlers, split at their awaits;      *)
(* SpecHostLive adds that every awaited load or timer eventually fires.    *)
(***************************************************************************)
EXTENDS Integers, Sequences, FiniteSets, TLC

\* ------------------------------------------------------------------ bounds
MaxFaults == 1     \* library call sites that throw during one operation
MaxDim == 5        \* largest image width / height
MaxArea == 3       \* largest contour area handed to the fallback on its own
MaxContours == 2   \* most contours handed to the fallback on its own
MaxPoints == 3     \* most points handed to removeDuplicatePoints on its own
MaxLive == 64      \* native buffers alive on the page before the host stops

\* ------------------------------------------------------- program constants
DedupThreshold == 10        \* removeDuplicatePoints(allPoints, 10)
MinDetectArea == 100        \* if (area > 100)
MinContourArea == 10        \* const minContourArea = 10
RequiredPoints == 4         \* uniquePoints.length >= 4 / points.length < 4
QuadVertices == 4           \* approx.rows === 4
MatrixRows == 4             \* new cv.Mat(4, 1, cv.CV_32FC2)
AreaDivisor == 10           \* maxArea < (rows * cols) * 0.1
ImreadChannels == 4         \* cv.imread yields RGBA

\* ------------------------------------------------------------ value shapes
Pt(x, y) == [x |-> x, y |-> y]

NullImage == [isNull |-> TRUE, width |-> 0, height |-> 0]
Img(w, h) == [isNull |-> FALSE, width |-> w, height |-> h]

\* a native matrix: method is the binarization that produced it (0: none)
NullMat == [isNull |-> TRUE, cols |-> 0, rows |-> 0, channels |-> 0, method |-> 0]
Mat(c, r, ch) == [isNull |-> FALSE, cols |-> c, rows |-> r, channels |-> ch, method |-> 0]

NoError == "null"
NoValue == "undefined"

\* messages of the Error objects the code creates (English renderings)
MsgNotInitialized == "aligner not initialized"               \* line 140
MsgAlignFailed == "alignment failed, retake a clear picture" \* line 161
MsgNoOuterFrame == "no valid answer-sheet contour found"     \* line 481
MsgNotQuadrilateral == "answer-sheet contour is not a quadrilateral" \* line 489
MsgMatEmpty == "input image Mat is empty"                    \* line 215
MsgMatSize == "input image Mat size invalid"                 \* line 219
MsgNotAFunction == "this.getFallbackPoints is not a function" \* line 110
MsgNullImage == "cannot read properties of null"             \* line 23
MsgImread == "please input the valid canvas or img id"      \* cv.imread(null)
\* messages of the Error objects the host catches (main.js)
MsgTemplateLoadFailed == "template image failed to load"     \* main.js line 222
MsgBadFile == "please upload an image file"                  \* main.js line 437
MsgMaskLoadFailed == "image failed to load"                  \* main.js line 67
MsgBusy == "system is busy, please wait"                     \* main.js line 479
MsgNoTemplate == "load the template image first"             \* main.js line 484
MsgNoMask == "upload the mask image first"                   \* main.js line 489
MsgHostAlignFailed == "image alignment failed"               \* main.js line 512
\* message of the Error a library call throws: names the call
MsgLibrary(site) == site

\* ------------------------------------------------- native buffer accounting
Kinds == {"mat", "binary", "gray", "candidate", "contours", "hierarchy",
          "contour", "approx", "linesP", "pointMatrix", "M", "aligned"}

NoBuffers == [k \in Kinds |-> 0]

\* the point sequences handed to calculatePerspectiveTransform and the point
\* matrices built from them; computed is FALSE while no homography was asked
NoTransform == [computed |-> FALSE, srcPoints |-> <<>>, dstPoints |-> <<>>,
                srcMat |-> <<>>, dstMat |-> <<>>]

\* effects of one operation: the steps it ran, the library calls that threw,
\* the oracle fields it consulted, the buffers it acquired, the buffers it
\* acquired that are still alive, the outcome of feature detection, the
\* error of the fallback result (NoValue: fallback not run), the
\* homography it asked for, the matrices handed to preprocessImage, and the
\* kinds of buffer it released or read with none of that kind alive
NoEffects == [trace |-> <<>>, hits |-> {}, reads |-> {}, acq |-> 0,
              live |-> NoBuffers, detect |-> "none", fallbackError |-> NoValue,
              transform |-> NoTransform, preInput |-> <<>>, misuse |-> {}]

Alloc(e, k) == [e EXCEPT !.acq = @ + 1, !.live[k] = @ + 1]
\* mat.delete()
Free(e, k) ==
    [e EXCEPT !.live[k] = @ - 1,
              !.misuse = IF e.live[k] <= 0 THEN @ \cup {<< "release", k >>} ELSE @]
\* a library call reading a buffer of kind k
Use(e, k) == [e EXCEPT !.misuse = IF e.live[k] <= 0 THEN @ \cup {<< "read", k >>} ELSE @]
Step(e, name) == [e EXCEPT !.trace = Append(@, name)]
Hit(e, site) == [e EXCEPT !.hits = @ \cup {site}]
Read(e, field) == [e EXCEPT !.reads = @ \cup {field}]

RECURSIVE AllocN(_, _, _)
AllocN(e, k, n) == IF n = 0 THEN e ELSE AllocN(Alloc(e, k), k, n - 1)

RECURSIVE FreeN(_, _, _)
FreeN(e, k, n) == IF n = 0 THEN e ELSE FreeN(Free(e, k), k, n - 1)

\* outcome of a step: a returned value or a thrown Error
Ok(v, e) == [threw |-> FALSE, msg |-> NoError, val |-> v, e |-> e]
Throw(m, e) == [threw |-> TRUE, msg |-> m, val |-> NullMat, e |-> e]
\* a library call at `site` throws
Fault(site, e) == Throw(MsgLibrary(site), Hit(e, site))

Faulty(o, site) == site \in o.faults

Abs(n) == IF n < 0 THEN -n ELSE n

\* ----------------------------------------------------------- Preprocessor
SelectSite(i) ==
    IF i = 1 THEN "select.findContours1"
    ELSE IF i = 2 THEN "select.findContours2"
    ELSE "select.findContours3"

\* the scoring loop with >= for >: the last of the best candidates wins
RECURSIVE SelectLoop_LastWins(_, _, _, _, _)
SelectLoop_LastWins(i, n, o, bestBinary, bestScore) ==
    IF i > n THEN bestBinary
    ELSE IF Faulty(o, SelectSite(i))
         THEN SelectLoop_LastWins(i + 1, n, o, bestBinary, bestScore)
    ELSE IF o.counts[i] >= bestScore THEN SelectLoop_LastWins(i + 1, n, o, i, o.counts[i])
    ELSE SelectLoop_LastWins(i + 1, n, o, bestBinary, bestScore)

\* the scoring loop of selectBestBinary: index of the best candidate, 0 when
\* every evaluation faulted (bestScore starts at -1, a fault skips the
\* candidate, a strictly higher score replaces the best)
RECURSIVE SelectLoop(_, _, _, _, _)
SelectLoop(i, n, o, bestBinary, bestScore) ==
    IF i > n THEN bestBinary
    ELSE IF Faulty(o, SelectSite(i)) THEN SelectLoop(i + 1, n, o, bestBinary, bestScore)
    ELSE IF o.counts[i] > bestScore THEN SelectLoop(i + 1, n, o, i, o.counts[i])
    ELSE SelectLoop(i + 1, n, o, bestBinary, bestScore)

\* the score of one candidate: its contours with area above minContourArea
ValidContourCount(areas) ==
    Cardinality({j \in 1..Len(areas) : areas[j] > MinContourArea})

\* selectBestBinary(binaryResults, gray): a clone of the winner.  Every
\* iteration overwrites contours and hierarchy; the finally block deletes
\* only the last pair.
selectBestBinary(src, n, o, e) ==
    LET best == SelectLoop(1, n, o, 0, -1)
        winner == IF best # 0 THEN best ELSE 1
        eLoop == AllocN(AllocN(Read(e, "counts"), "contours", n), "hierarchy", n)
        eHits == [eLoop EXCEPT !.hits = @ \cup {SelectSite(i) : i \in {j \in 1..n : Faulty(o, SelectSite(j))}}]
        eFin == Free(Free(eHits, "contours"), "hierarchy")
    IN  IF Faulty(o, "select.clone") THEN Fault("select.clone", eFin)
        ELSE Ok([isNull |-> FALSE, cols |-> src.cols, rows |-> src.rows,
                 channels |-> 1, method |-> winner],
                Alloc(Use(eFin, "candidate"), "binary"))

\* the finally block of preprocessImage deleting the returned Mat as well
PreFinally_DeletesReturned(e, pushed) ==
    LET eF == FreeN(Free(e, "gray"), "candidate", pushed)
    IN  IF eF.live["binary"] > 0 THEN Free(eF, "binary") ELSE eF

\* the finally block of preprocessImage: gray and every pushed candidate
PreFinally(e, pushed) == FreeN(Free(e, "gray"), "candidate", pushed)

\* the size check of preprocessImage testing the width only
MatSizeInvalid_WidthOnly(srcMat) == srcMat.cols = 0

\* line 218 of preprocessImage: !srcMat.cols || !srcMat.rows
MatSizeInvalid(srcMat) == srcMat.cols = 0 \/ srcMat.rows = 0

\* the try block of preprocessImage with its finally block
preprocessBody(srcMat, o, e) ==
    IF srcMat.isNull THEN Throw(MsgMatEmpty, e)
    ELSE IF MatSizeInvalid(srcMat) THEN Throw(MsgMatSize, e)
    ELSE
    LET eGray == Alloc(e, "gray")
        colour == srcMat.channels = 3 \/ srcMat.channels = 4
        graySite == IF colour THEN "pre.cvtColor" ELSE "pre.clone"
        \* gray = srcMat.clone() overwrites the Mat created at line 224
        eConv == IF colour THEN eGray ELSE Alloc(eGray, "gray")
        e1 == Alloc(eConv, "candidate")
        e2 == Alloc(e1, "candidate")
        e3 == Alloc(e2, "candidate")
    IN  IF Faulty(o, graySite) THEN Fault(graySite, PreFinally(eGray, 0))
        ELSE IF Faulty(o, "pre.threshold1") THEN Fault("pre.threshold1", PreFinally(e1, 0))
        ELSE IF Faulty(o, "pre.adaptiveThreshold") THEN Fault("pre.adaptiveThreshold", PreFinally(e2, 1))
        ELSE IF Faulty(o, "pre.threshold3") THEN Fault("pre.threshold3", PreFinally(e3, 2))
        ELSE LET sel == selectBestBinary(srcMat, 3, o, e3)
             IN  [sel EXCEPT !.e = PreFinally(sel.e, 3)]

\* preprocessImage(srcMat): grayscale, three binarizations, best one
preprocessImage(srcMat, o, e) ==
    preprocessBody(srcMat, o, [e EXCEPT !.preInput = Append(@, srcMat)])

\* --------------------------------------------------------- FeatureDetector
\* the loop of removeDuplicatePoints with <= for <: points exactly threshold
\* apart merge
RECURSIVE DedupLoop_Inclusive(_, _, _, _)
DedupLoop_Inclusive(points, i, threshold, uniquePoints) ==
    IF i > Len(points) THEN uniquePoints
    ELSE LET point == points[i]
             isDuplicate == \E j \in 1..Len(uniquePoints) :
                               /\ Abs(uniquePoints[j].x - point.x) <= threshold
                               /\ Abs(uniquePoints[j].y - point.y) <= threshold
         IN  DedupLoop_Inclusive(points, i + 1, threshold,
                       IF isDuplicate THEN uniquePoints ELSE Append(uniquePoints, point))

\* removeDuplicatePoints(points, threshold): keep a point unless an already
\* kept point is closer than threshold on both axes
RECURSIVE DedupLoop(_, _, _, _)
DedupLoop(points, i, threshold, uniquePoints) ==
    IF i > Len(points) THEN uniquePoints
    ELSE LET point == points[i]
             isDuplicate == \E j \in 1..Len(uniquePoints) :
                               /\ Abs(uniquePoints[j].x - point.x) < threshold
                               /\ Abs(uniquePoints[j].y - point.y) < threshold
         IN  DedupLoop(points, i + 1, threshold,
                       IF isDuplicate THEN uniquePoints ELSE Append(uniquePoints, point))

removeDuplicatePoints(points, threshold) == DedupLoop(points, 1, threshold, <<>>)

\* the contour loop of findLinesAndPoints
RECURSIVE DetectLoop(_, _, _, _, _)
DetectLoop(cs, i, o, points, e) ==
    IF i > Len(cs) THEN [threw |-> FALSE, points |-> points, e |-> e]
    ELSE LET eC == Alloc(e, "contour")
         IN  IF cs[i].area > MinDetectArea
             THEN LET eA == Alloc(eC, "approx")
                  IN  IF Faulty(o, "detect.approxPolyDP")
                      THEN [threw |-> TRUE, points |-> points, e |-> Hit(eA, "detect.approxPolyDP")]
                      ELSE DetectLoop(cs, i + 1, o,
                                      IF Len(cs[i].approx) = QuadVertices
                                      THEN points \o cs[i].approx ELSE points,
                                      Free(Free(eA, "approx"), "contour"))
             ELSE DetectLoop(cs, i + 1, o, points, Free(eC, "contour"))

\* the catch block reporting success
DetectFailed_Succeeds(e) == Ok([points |-> <<>>, success |-> TRUE], e)

\* the catch block of findLinesAndPoints
DetectFailed(e) == Ok([points |-> <<>>, success |-> FALSE], e)

\* findLinesAndPoints(binaryImage): never throws, faults become success=false
findLinesAndPoints(binaryImage, o, e) ==
    LET eL == Alloc(e, "linesP")
        eC == Alloc(Alloc(Free(eL, "linesP"), "contours"), "hierarchy")
        loop == DetectLoop(o.contours, 1, o, <<>>, eC)
        allPoints == loop.points \o o.linePoints
        uniquePoints == removeDuplicatePoints(allPoints, DedupThreshold)
    IN  IF Faulty(o, "detect.HoughLinesP") THEN DetectFailed(Hit(eL, "detect.HoughLinesP"))
        ELSE IF Faulty(o, "detect.findContours")
             THEN DetectFailed(Read(Hit(eC, "detect.findContours"), "linePoints"))
        ELSE IF loop.threw THEN DetectFailed(Read(Read(loop.e, "linePoints"), "contours"))
        ELSE Ok([points |-> uniquePoints, success |-> Len(uniquePoints) >= RequiredPoints],
                Read(Read(Free(Free(loop.e, "contours"), "hierarchy"), "linePoints"), "contours"))

\* ------------------------------------------------ TransformEstimator, Warper
\* what an entry of a fresh cv.Mat(4, 1, CV_32FC2) holds before it is written
UninitPt == Pt(-1, -1)

\* createCVPointMatrix filled from the last four entries of points
createCVPointMatrix_LastFour(points) ==
    [i \in 1..MatrixRows |->
        IF Len(points) >= MatrixRows THEN points[Len(points) - MatrixRows + i]
        ELSE IF i <= Len(points) THEN points[i] ELSE UninitPt]

\* createCVPointMatrix(points): entries 0..3, written only where i < length
createCVPointMatrix(points) ==
    [i \in 1..MatrixRows |-> IF i <= Len(points) THEN points[i] ELSE UninitPt]

\* calculatePerspectiveTransform(srcPoints, dstPoints): the two point
\* matrices are never deleted
calculatePerspectiveTransform(srcPoints, dstPoints, site, o, e) ==
    LET srcMat == createCVPointMatrix(srcPoints)
        dstMat == createCVPointMatrix(dstPoints)
        eP == [Alloc(Alloc(e, "pointMatrix"), "pointMatrix")
                 EXCEPT !.transform = [computed |-> TRUE,
                                       srcPoints |-> srcPoints, dstPoints |-> dstPoints,
                                       srcMat |-> srcMat, dstMat |-> dstMat]]
    IN  IF Faulty(o, site) THEN Fault(site, eP)
        ELSE Ok([src |-> srcMat, dst |-> dstMat], Alloc(eP, "M"))

\* cv.warpPerspective(src, dst, M, dsize): dst gets dsize, or the size of src
\* when dsize is empty
warpPerspective(src, dsize) ==
    IF dsize.width <= 0 \/ dsize.height <= 0
    THEN Mat(src.cols, src.rows, src.channels)
    ELSE Mat(dsize.width, dsize.height, src.channels)

\* order of Math.atan2(y, x) over (-pi, pi]: lower half plane, angle 0,
\* upper half plane, angle pi
AngleClass(d) ==
    IF d.y < 0 THEN 0
    ELSE IF d.y = 0 /\ d.x >= 0 THEN 1
    ELSE IF d.y > 0 THEN 2
    ELSE 3

\* angleA - angleB < 0 for the directions a and b
AngleLess(a, b) ==
    \/ AngleClass(a) < AngleClass(b)
    \/ /\ AngleClass(a) = AngleClass(b)
       /\ AngleClass(a) \in {0, 2}
       /\ a.x * b.y - a.y * b.x > 0

RECURSIVE SumX(_, _)
SumX(ps, i) == IF i > Len(ps) THEN 0 ELSE ps[i].x + SumX(ps, i + 1)
RECURSIVE SumY(_, _)
SumY(ps, i) == IF i > Len(ps) THEN 0 ELSE ps[i].y + SumY(ps, i + 1)

\* stable insertion of p into the sorted sequence ps
RECURSIVE InsertCorner(_, _, _, _, _)
InsertCorner(ps, p, i, cx, n) ==
    LET Dir(q) == Pt(n * q.x - cx.x, n * q.y - cx.y)
    IN  IF i > Len(ps) THEN Append(ps, p)
        ELSE IF AngleLess(Dir(p), Dir(ps[i]))
             THEN SubSeq(ps, 1, i - 1) \o <<p>> \o SubSeq(ps, i, Len(ps))
             ELSE InsertCorner(ps, p, i + 1, cx, n)

RECURSIVE SortLoop(_, _, _, _, _)
SortLoop(corners, i, sorted, cx, n) ==
    IF i > Len(corners) THEN sorted
    ELSE SortLoop(corners, i + 1, InsertCorner(sorted, corners[i], 1, cx, n), cx, n)

\* sortCorners(corners): stable sort by angle around the centroid (directions
\* scaled by the number of corners to stay in the integers)
sortCorners(corners) ==
    SortLoop(corners, 1, <<>>, Pt(SumX(corners, 1), SumY(corners, 1)), Len(corners))

\* ----------------------------------------------------------- FallbackAligner
\* the area check refusing an area of exactly 10%
FrameTooSmall_Inclusive(maxArea, srcMat) ==
    maxArea = 0 \/ maxArea * AreaDivisor <= srcMat.rows * srcMat.cols

\* !maxContour || maxArea < (srcMat.rows * srcMat.cols) * 0.1: maxContour is
\* set only by a contour whose area exceeds 0
FrameTooSmall(maxArea, srcMat) ==
    maxArea = 0 \/ maxArea * AreaDivisor < srcMat.rows * srcMat.cols

RECURSIVE MaxAreaLoop(_, _, _)
MaxAreaLoop(areas, i, maxArea) ==
    IF i > Len(areas) THEN maxArea
    ELSE MaxAreaLoop(areas, i + 1, IF areas[i] > maxArea THEN areas[i] ELSE maxArea)

FallbackResult(ok, image, error) ==
    [success |-> ok, error |-> error, alignedImage |-> image]

\* the catch block of fallbackAlignment
FallbackCatch(r) ==
    IF r.threw
    THEN [ret |-> FallbackResult(FALSE, NullMat, r.msg),
          e |-> [r.e EXCEPT !.fallbackError = r.msg]]
    ELSE [ret |-> r.val, e |-> [r.e EXCEPT !.fallbackError = NoError]]

\* the try block of fallbackAlignment(srcMat)
FallbackTry(srcMat, size, o, e) ==
    LET eG == Alloc(e, "gray")
        eB == Alloc(eG, "binary")
        eC == Alloc(Alloc(eB, "contours"), "hierarchy")
        \* contours.get(i) hands out a Mat per contour; none is deleted
        eL == AllocN(Read(eC, "areas"), "contour", Len(o.areas))
        maxArea == MaxAreaLoop(o.areas, 1, 0)
        eA == Alloc(eL, "approx")
        eQ == Read(eA, "approx")
        srcPoints == SubSeq(o.approx, 1, QuadVertices)
        sortedPoints == sortCorners(srcPoints)
        dstPoints == << Pt(0, 0), Pt(size.width, 0),
                        Pt(size.width, size.height), Pt(0, size.height) >>
        tr == calculatePerspectiveTransform(sortedPoints, dstPoints,
                  "fallback.getPerspectiveTransform", o,
                  Step(eQ, "fallback.calculatePerspectiveTransform"))
        eW == Alloc(Step(tr.e, "fallback.warpPerspective"), "aligned")
        eR == Free(Free(Free(Free(Free(Free(eW, "gray"), "binary"), "contours"),
                             "hierarchy"), "approx"), "M")
    IN  IF Faulty(o, "fallback.cvtColor") THEN Fault("fallback.cvtColor", eG)
        ELSE IF Faulty(o, "fallback.threshold") THEN Fault("fallback.threshold", eB)
        ELSE IF Faulty(o, "fallback.findContours") THEN Fault("fallback.findContours", eC)
        ELSE IF FrameTooSmall(maxArea, srcMat) THEN Throw(MsgNoOuterFrame, eL)
        ELSE IF Faulty(o, "fallback.approxPolyDP") THEN Fault("fallback.approxPolyDP", eA)
        ELSE IF Len(o.approx) # QuadVertices THEN Throw(MsgNotQuadrilateral, eQ)
        ELSE IF tr.threw THEN tr
        ELSE IF Faulty(o, "fallback.warpPerspective") THEN Fault("fallback.warpPerspective", eW)
        ELSE Ok(FallbackResult(TRUE, warpPerspective(srcMat, size), NoError), eR)

\* fallbackAlignment(srcMat): never throws
fallbackAlignment(srcMat, size, o, e) == FallbackCatch(FallbackTry(srcMat, size, o, e))

\* ------------------------------------------------------ AlignmentOrchestrator
Session(points, size, ready) ==
    [templatePoints |-> points, templateSize |-> size, isInitialized |-> ready]

Size(w, h) == [width |-> w, height |-> h]

AlignResult(ok, image, error) ==
    [success |-> ok, error |-> error, alignedImage |-> image]

NoResult == AlignResult(FALSE, NullMat, NoValue)

\* cv.imread(element): an RGBA Mat of the element's size
imread(img) == Mat(img.width, img.height, ImreadChannels)

\* alignFallback passing the sample's size where the code passes templateSize
alignFallback_SampleSize(s, srcMat, o, e) ==
    LET fallbackResult == fallbackAlignment(srcMat, Size(srcMat.cols, srcMat.rows), o,
                                            Step(e, "fallbackAlignment"))
    IN  IF ~fallbackResult.ret.success THEN Throw(MsgAlignFailed, fallbackResult.e)
        ELSE Ok(fallbackResult.ret, fallbackResult.e)

\* alignFallback trying the fallback a second time when it failed
alignFallback_Retry(s, srcMat, o, e) ==
    LET first == fallbackAlignment(srcMat, s.templateSize, o, Step(e, "fallbackAlignment"))
        fallbackResult == IF first.ret.success THEN first
                          ELSE fallbackAlignment(srcMat, s.templateSize, o,
                                                 Step(first.e, "fallbackAlignment"))
    IN  IF ~fallbackResult.ret.success THEN Throw(MsgAlignFailed, fallbackResult.e)
        ELSE Ok(fallbackResult.ret, fallbackResult.e)

\* alignFallback rethrowing the fallback's own error
alignFallback_OwnError(s, srcMat, o, e) ==
    LET fallbackResult == fallbackAlignment(srcMat, s.templateSize, o,
                                            Step(e, "fallbackAlignment"))
    IN  IF ~fallbackResult.ret.success
        THEN Throw(fallbackResult.ret.error, fallbackResult.e)
        ELSE Ok(fallbackResult.ret, fallbackResult.e)

\* lines 155-165 of alignUserImage: the fallback result is returned as it
\* is when it succeeded, and replaced by a fixed Error when it failed
alignFallback(s, srcMat, o, e) ==
    LET fallbackResult == fallbackAlignment(srcMat, s.templateSize, o,
                                            Use(Step(e, "fallbackAlignment"), "mat"))
    IN  IF ~fallbackResult.ret.success THEN Throw(MsgAlignFailed, fallbackResult.e)
        ELSE Ok(fallbackResult.ret, fallbackResult.e)

\* alignPrimary handing a fault of the primary path to the fallback
alignPrimary_FaultToFallback(s, srcMat, points, o, e) ==
    LET tr == calculatePerspectiveTransform(points, s.templatePoints,
                  "align.getPerspectiveTransform", o,
                  Step(e, "calculatePerspectiveTransform"))
        eW == Alloc(Step(tr.e, "warpPerspective"), "aligned")
        eR == Free(Free(Free(eW, "mat"), "binary"), "M")
    IN  IF tr.threw THEN alignFallback(s, srcMat, o, tr.e)
        ELSE IF Faulty(o, "align.warpPerspective")
             THEN alignFallback(s, srcMat, o, Hit(eW, "align.warpPerspective"))
        ELSE Ok(AlignResult(TRUE, warpPerspective(srcMat, s.templateSize), NoError), eR)

\* lines 167-187 of alignUserImage: homography onto templatePoints, warp to
\* templateSize, release srcMat, binarySrc and M
alignPrimary(s, srcMat, points, o, e) ==
    LET tr == calculatePerspectiveTransform(points, s.templatePoints,
                  "align.getPerspectiveTransform", o,
                  Step(e, "calculatePerspectiveTransform"))
        eW == Alloc(Use(Step(tr.e, "warpPerspective"), "mat"), "aligned")
        eR == Free(Free(Free(eW, "mat"), "binary"), "M")
    IN  IF tr.threw THEN tr
        ELSE IF Faulty(o, "align.warpPerspective") THEN Fault("align.warpPerspective", eW)
        ELSE Ok(AlignResult(TRUE, warpPerspective(srcMat, s.templateSize), NoError), eR)

\* the branch of alignUserImage on the detection result (line 155)
alignBranch(s, srcMat, srcResult, o, e) ==
    IF ~srcResult.success \/ Len(srcResult.points) < RequiredPoints
    THEN alignFallback(s, srcMat, o, [e EXCEPT !.detect = "failed"])
    ELSE alignPrimary(s, srcMat, srcResult.points, o, [e EXCEPT !.detect = "ok"])

\* the try block of alignUserImage
alignTry(s, img, o, e) ==
    LET eI == Step(e, "imread")
        srcMat == imread(img)
        pre == preprocessImage(srcMat, o, Use(Step(Alloc(eI, "mat"), "preprocessImage"), "mat"))
        det == findLinesAndPoints(pre.val, o, Use(Step(pre.e, "findLinesAndPoints"), "binary"))
    IN  IF img.isNull THEN Throw(MsgImread, eI)
        ELSE IF Faulty(o, "imread") THEN Fault("imread", eI)
        ELSE IF pre.threw THEN pre
        ELSE alignBranch(s, srcMat, det.val, o, det.e)

\* alignCatch letting the fault escape to the caller
alignCatch_Rethrow(s, r) ==
    [raised |-> r.threw,
     ret |-> IF r.threw THEN NoResult ELSE r.val,
     caught |-> NoError,
     e |-> r.e,
     s |-> s]

\* alignCatch marking the session failed, as the catch block of
\* initializeWithTemplate does
alignCatch_ClearsReady(s, r) ==
    [raised |-> FALSE,
     ret |-> IF r.threw THEN AlignResult(FALSE, NullMat, r.msg) ELSE r.val,
     caught |-> IF r.threw THEN r.msg ELSE NoError,
     e |-> r.e,
     s |-> IF r.threw THEN [s EXCEPT !.isInitialized = FALSE] ELSE s]

\* alignCatch dropping the template points after a failed call
alignCatch_DropsPoints(s, r) ==
    [raised |-> FALSE,
     ret |-> IF r.threw THEN AlignResult(FALSE, NullMat, r.msg) ELSE r.val,
     caught |-> IF r.threw THEN r.msg ELSE NoError,
     e |-> r.e,
     s |-> IF r.threw THEN [s EXCEPT !.templatePoints = <<>>] ELSE s]

\* the catch block of alignUserImage
alignCatch(s, r) ==
    [raised |-> FALSE,
     ret |-> IF r.threw THEN AlignResult(FALSE, NullMat, r.msg) ELSE r.val,
     caught |-> IF r.threw THEN r.msg ELSE NoError,
     e |-> r.e,
     s |-> s]

\* alignUserImage without the isInitialized guard of line 139
alignUserImage_NoGuard(s, img, o) == alignCatch(s, alignTry(s, img, o, NoEffects))

\* alignUserImage(userImageElement)
alignUserImage(s, img, o) ==
    IF ~s.isInitialized
    THEN [raised |-> FALSE,
          ret |-> AlignResult(FALSE, NullMat, MsgNotInitialized),
          caught |-> NoError, e |-> NoEffects, s |-> s]
    ELSE alignCatch(s, alignTry(s, img, o, NoEffects))

\* outcome of one step of initializeWithTemplate, with the session as the
\* step left it
InitOk(s, e) == [threw |-> FALSE, msg |-> NoError, s |-> s, e |-> e]
InitThrow(m, s, e) == [threw |-> TRUE, msg |-> m, s |-> s, e |-> e]

\* this.getFallbackPoints(templateMat), line 110: the class defines no
\* method of that name, so the call throws a TypeError
getFallbackPoints(templateMat, e) == Throw(MsgNotAFunction, e)

\* storeTemplatePoints keeping whatever detection returned
storeTemplatePoints_AnyPoints(s, templateMat, templateResult, e) ==
    InitOk([s EXCEPT !.templatePoints = templateResult.points],
           Step([e EXCEPT !.detect = IF templateResult.success THEN "ok" ELSE "failed"],
                "storePoints"))

\* storeTemplatePoints reporting success without storing the points
storeTemplatePoints_KeepsOld(s, templateMat, templateResult, e) ==
    InitOk(s, Step([e EXCEPT !.detect = IF templateResult.success THEN "ok" ELSE "failed"],
                   "storePoints"))

\* lines 106-114 of initializeWithTemplate: store the template points
storeTemplatePoints(s, templateMat, templateResult, e) ==
    IF ~templateResult.success \/ Len(templateResult.points) < RequiredPoints
    THEN LET fallbackPoints == getFallbackPoints(templateMat,
                                   Use(Step([e EXCEPT !.detect = "failed"],
                                            "getFallbackPoints"), "mat"))
         IN  IF fallbackPoints.threw
             THEN InitThrow(fallbackPoints.msg, s, fallbackPoints.e)
             ELSE InitOk([s EXCEPT !.templatePoints = fallbackPoints.val], fallbackPoints.e)
    ELSE InitOk([s EXCEPT !.templatePoints = templateResult.points],
                Step([e EXCEPT !.detect = "ok"], "storePoints"))

\* the try block of initializeWithTemplate
initTry(s, img, o, e) ==
    LET eK == Step(e, "libraryCheck")
        sSize == [s EXCEPT !.templateSize = Size(img.width, img.height)]
        eI == Step(eK, "imread")
        templateMat == imread(img)
        pre == preprocessImage(templateMat, o,
                               Use(Step(Alloc(eI, "mat"), "preprocessImage"), "mat"))
        det == findLinesAndPoints(pre.val, o, Use(Step(pre.e, "findLinesAndPoints"), "binary"))
        st == storeTemplatePoints(sSize, templateMat, det.val, det.e)
    IN  IF img.isNull THEN InitThrow(MsgNullImage, s, e)
        ELSE IF Faulty(o, "init.libraryCheck")
             THEN InitThrow(MsgLibrary("init.libraryCheck"), s, Hit(eK, "init.libraryCheck"))
        ELSE IF Faulty(o, "imread")
             THEN InitThrow(MsgLibrary("imread"), sSize, Hit(eI, "imread"))
        ELSE IF pre.threw THEN InitThrow(pre.msg, sSize, pre.e)
        ELSE IF st.threw THEN st
        ELSE InitOk([st.s EXCEPT !.isInitialized = TRUE],
                    Step(Free(Free(st.e, "mat"), "binary"), "release"))

\* initCatch leaving the ready flag as it was
initCatch_KeepsReady(r) ==
    [raised |-> FALSE,
     returned |-> ~r.threw,
     caught |-> r.msg,
     e |-> r.e,
     s |-> r.s]

\* the catch block of initializeWithTemplate
initCatch(r) ==
    [raised |-> FALSE,
     returned |-> ~r.threw,
     caught |-> r.msg,
     e |-> r.e,
     s |-> IF r.threw THEN [r.s EXCEPT !.isInitialized = FALSE] ELSE r.s]

\* initializeWithTemplate(templateImage)
initializeWithTemplate(s, img, o) == initCatch(initTry(s, img, o, NoEffects))

\* cleanup leaving the ready flag set
cleanup_KeepsReady(s, image) == s

\* cleanup(): templateImage is never assigned, so only the flag changes
cleanup(s, image) == [s EXCEPT !.isInitialized = FALSE]

\* ------------------------------------------------------------------ inputs
Widths == (MaxDim - 1)..MaxDim
Images == {NullImage, Img(0, MaxDim), Img(MaxDim, 0)} \cup {Img(w, MaxDim) : w \in Widths}

Quad == << Pt(0, 0), Pt(40, 0), Pt(40, 50), Pt(0, 50) >>
Lines4 == << Pt(0, 0), Pt(60, 0), Pt(60, 60), Pt(0, 60) >>

\* endpoints of the detected line segments
LineChoices == { <<>>, << Pt(5, 5), Pt(40, 10) >>, Lines4 }

\* external contours of the binary image with their polygon approximation
ContourChoices == { <<>>,
                    << [area |-> 101, approx |-> Quad] >>,
                    << [area |-> 100, approx |-> Quad] >> }

\* valid-contour counts of the three candidate binarizations
CountChoices == { <<2, 5, 3>>, <<1, 1, 1>> }

\* areas of the external contours the fallback finds
AreaChoices == { <<>>, <<1>>, <<2>>, <<3, 1>> }

\* polygon approximation of the fallback's largest contour
ApproxChoices == { << Pt(0, 0), Pt(4, 0), Pt(2, 4) >>,
                   << Pt(4, 4), Pt(0, 0), Pt(0, 4), Pt(4, 0) >>,
                   << Pt(0, 0), Pt(4, 0), Pt(5, 2), Pt(4, 4), Pt(0, 4) >> }

PreSites == {"pre.cvtColor", "pre.threshold1", "pre.adaptiveThreshold", "pre.threshold3",
             "select.findContours1", "select.findContours2", "select.findContours3",
             "select.clone"}
DetectSites == {"detect.HoughLinesP", "detect.findContours", "detect.approxPolyDP"}
FallbackSites == {"fallback.cvtColor", "fallback.threshold", "fallback.findContours",
                  "fallback.approxPolyDP", "fallback.getPerspectiveTransform",
                  "fallback.warpPerspective"}
InitSites == {"init.libraryCheck", "imread"} \cup PreSites \cup DetectSites
AlignSites == {"imread", "align.getPerspectiveTransform", "align.warpPerspective"}
                  \cup PreSites \cup DetectSites \cup FallbackSites

FaultSets(sites) == {F \in SUBSET sites : Cardinality(F) <= MaxFaults}

\* what the library does during one operation
Oracles(sites) ==
    [faults : FaultSets(sites), counts : CountChoices, linePoints : LineChoices,
     contours : ContourChoices, areas : AreaChoices, approx : ApproxChoices]

DefaultOracle ==
    [faults |-> {}, counts |-> <<2, 5, 3>>, areas |-> <<>>,
     approx |-> << Pt(0, 0), Pt(4, 0), Pt(2, 4) >>, contours |-> <<>>, linePoints |-> <<>>]

OracleFields == {"counts", "linePoints", "contours", "areas", "approx"}

\* an oracle is kept when the operation hits every fault it holds and every
\* field the operation does not consult has its default value: the oracles
\* left out differ from a kept one only in what the operation never sees
Relevant(o, e) ==
    /\ e.hits = o.faults
    /\ \A f \in OracleFields \ e.reads : o[f] = DefaultOracle[f]

\* the path of an operation depends on the session through the ready flag
\* only, so the inputs are sorted out once per value of the flag
ProbeSession(ready) == Session(<<>>, Size(1, 1), ready)

AlignInputs ==
    {in \in Images \X Oracles(AlignSites) :
        Relevant(in[2], alignUserImage(ProbeSession(TRUE), in[1], in[2]).e)}

AlignInputsNotReady ==
    {in \in Images \X Oracles(AlignSites) :
        Relevant(in[2], alignUserImage(ProbeSession(FALSE), in[1], in[2]).e)}

InitInputs ==
    {in \in Images \X Oracles(InitSites) :
        Relevant(in[2], initializeWithTemplate(ProbeSession(FALSE), in[1], in[2]).e)}

\* ------------------------------------------------------------------- state
\* the aligner's fields and what the caller of the last operation observed;
\* the host's fields, the host operations suspended at an await, and
\* the native buffers alive on the page
VARIABLES templateImage, templatePoints, templateSize, isInitialized, last,
          isProcessing, templateLoaded, maskImage, pending, liveBuffers

alignerVars == << templateImage, templatePoints, templateSize, isInitialized >>
hostVars == << isProcessing, templateLoaded, maskImage, pending, liveBuffers >>
vars == << templateImage, templatePoints, templateSize, isInitialized, last,
           isProcessing, templateLoaded, maskImage, pending, liveBuffers >>

session == Session(templatePoints, templateSize, isInitialized)

\* what the caller of the last operation observed
Observed(op, wasReady, returned, ret, raised, caught, e) ==
    [op |-> op, wasReady |-> wasReady, returned |-> returned, ret |-> ret,
     raised |-> raised, caught |-> caught, trace |-> e.trace, acq |-> e.acq,
     leak |-> e.live, detect |-> e.detect, fallbackError |-> e.fallbackError,
     hits |-> e.hits, transform |-> e.transform, preInput |-> e.preInput,
     misuse |-> e.misuse]

\* constructor()
Init ==
    /\ templateImage = NullMat
    /\ templatePoints = <<>>
    /\ templateSize = Size(0, 0)
    /\ isInitialized = FALSE
    /\ last = Observed("constructor", FALSE, FALSE, NoResult, FALSE, NoError, NoEffects)
    /\ isProcessing = FALSE
    /\ templateLoaded = FALSE
    /\ maskImage = NullImage
    /\ pending = {}
    /\ liveBuffers = 0

\* initializeWithTemplate with an await after line 58: the call either runs
\* to its end, or is suspended with the new templateSize written
InitStep_Suspending(in) ==
    \/ \E r \in {initializeWithTemplate(session, in[1], in[2])} :
            /\ templatePoints' = r.s.templatePoints
            /\ templateSize' = r.s.templateSize
            /\ isInitialized' = r.s.isInitialized
            /\ last' = Observed("initializeWithTemplate", isInitialized, r.returned,
                                NoResult, r.raised, r.caught, r.e)
            /\ UNCHANGED << templateImage, hostVars >>
    \/ /\ ~in[1].isNull
       /\ templateSize' = Size(in[1].width, in[1].height)
       /\ UNCHANGED << templateImage, templatePoints, isInitialized, last, hostVars >>

InitStep(in) ==
    \E r \in {initializeWithTemplate(session, in[1], in[2])} :
        /\ templatePoints' = r.s.templatePoints
        /\ templateSize' = r.s.templateSize
        /\ isInitialized' = r.s.isInitialized
        /\ last' = Observed("initializeWithTemplate", isInitialized, r.returned,
                            NoResult, r.raised, r.caught, r.e)
        /\ UNCHANGED << templateImage, hostVars >>

InitializeWithTemplate == \E in \in InitInputs : InitStep(in)

AlignStep(in) ==
    \E r \in {alignUserImage(session, in[1], in[2])} :
        /\ templatePoints' = r.s.templatePoints
        /\ templateSize' = r.s.templateSize
        /\ isInitialized' = r.s.isInitialized
        /\ last' = Observed("alignUserImage", isInitialized, FALSE,
                            r.ret, r.raised, r.caught, r.e)
        /\ UNCHANGED << templateImage, hostVars >>

AlignUserImage ==
    \/ \E in \in AlignInputs : isInitialized /\ AlignStep(in)
    \/ \E in \in AlignInputsNotReady : ~isInitialized /\ AlignStep(in)

Cleanup ==
    LET s == cleanup(session, templateImage)
    IN  /\ templateImage' = NullMat
        /\ templatePoints' = s.templatePoints
        /\ templateSize' = s.templateSize
        /\ isInitialized' = s.isInitialized
        /\ last' = Observed("cleanup", isInitialized, FALSE, NoResult, FALSE, NoError,
                            NoEffects)
        /\ UNCHANGED hostVars

Next == InitializeWithTemplate \/ AlignUserImage \/ Cleanup

\* the aligner driven directly by its three operations; every call's buffers
\* are observed in last.leak, and the page's running total liveBuffers is
\* kept by SpecHost below
Spec == Init /\ [][Next]_vars

\* ------------------------------------------- fallbackAlignment on its own
SeqsUpTo(S, n) == UNION {[1..k -> S] : k \in 0..n}

\* source matrices as cv.imread hands them to alignUserImage
FallbackMats == {Mat(w, h, ImreadChannels) : w, h \in Widths}

FallbackOracles ==
    {[DefaultOracle EXCEPT !.faults = F, !.areas = a, !.approx = q] :
        F \in FaultSets(FallbackSites), a \in SeqsUpTo(0..MaxArea, MaxContours),
        q \in ApproxChoices}

FallbackInputs ==
    {in \in FallbackMats \X FallbackOracles :
        Relevant(in[2], fallbackAlignment(in[1], Size(0, 0), in[2], NoEffects).e)}

\* fallbackAlignment(srcMat) called on the aligner as it stands
FallbackAlignment ==
    \E in \in FallbackInputs :
      \E r \in {fallbackAlignment(in[1], templateSize, in[2], NoEffects)} :
        /\ last' = [op |-> "fallbackAlignment", srcMat |-> in[1], o |-> in[2],
                    ret |-> r.ret, hits |-> r.e.hits, leak |-> r.e.live]
        /\ UNCHANGED << alignerVars, hostVars >>

NextFallback == FallbackAlignment

SpecFallback == Init /\ [][NextFallback]_vars

\* --------------------------------------------- preprocessImage on its own
PreChannels == {1, 3, 4}

PreMats == {NullMat, Mat(0, MaxDim, ImreadChannels), Mat(MaxDim, 0, ImreadChannels)}
               \cup {Mat(MaxDim, MaxDim, ch) : ch \in PreChannels}

PreUnitSites == PreSites \cup {"pre.clone"}

\* contour areas of one candidate binarization
CandidateAreas == { <<10>>, <<11>>, <<11, 10, 12>> }

\* the candidates whose scores are the counts of DefaultOracle
DefaultCandidates == << <<11, 12>>, <<11, 12, 13, 14, 15>>, <<11, 12, 13>> >>

CandidateTriples == [1..3 -> CandidateAreas] \cup {DefaultCandidates}

PreOracle(F, c) ==
    [DefaultOracle EXCEPT !.faults = F,
                          !.counts = [i \in 1..3 |-> ValidContourCount(c[i])]]

PreInputs ==
    {in \in PreMats \X FaultSets(PreUnitSites) \X CandidateTriples :
        LET e == preprocessImage(in[1], PreOracle(in[2], in[3]), NoEffects).e
        IN  /\ Relevant(PreOracle(in[2], in[3]), e)
            /\ "counts" \notin e.reads => in[3] = DefaultCandidates}

PreprocessStep(in) ==
    \E r \in {preprocessImage(in[1], PreOracle(in[2], in[3]), NoEffects)} :
        /\ last' = [op |-> "preprocessImage", srcMat |-> in[1], candidates |-> in[3],
                    raised |-> r.threw, error |-> r.msg, ret |-> r.val,
                    hits |-> r.e.hits, leak |-> r.e.live]
        /\ UNCHANGED << alignerVars, hostVars >>

\* preprocessImage(srcMat) called on its own
PreprocessImage == \E in \in PreInputs : PreprocessStep(in)

NextPreprocessor == PreprocessImage

SpecPreprocessor == Init /\ [][NextPreprocessor]_vars

\* direct calls of preprocessImage during which no library call throws
PreInputsNoFault == {in \in PreInputs : in[2] = {} /\ in[3] = DefaultCandidates}

PreprocessImageDirect == \E in \in PreInputsNoFault : PreprocessStep(in)

\* the aligner's three operations together with direct calls of its
\* preprocessImage method
NextWithPreprocessor == Next \/ PreprocessImageDirect

SpecWithPreprocessor == Init /\ [][NextWithPreprocessor]_vars

\* ------------------------------------ templates told apart by their frames
\* the corners line detection finds in a template: every template image has
\* its own frame, scaled with its size
FrameOf(img) ==
    << Pt(0, 0), Pt(12 * img.width, 0), Pt(12 * img.width, 12 * img.height),
       Pt(0, 12 * img.height) >>

\* what the library finds in one image
TemplateOracle(img) == [DefaultOracle EXCEPT !.linePoints = FrameOf(img)]

TemplateInputs ==
    {<< img, [TemplateOracle(img) EXCEPT !.faults = F] >> :
        img \in Images, F \in FaultSets(InitSites)}

UserInputs ==
    {<< img, [TemplateOracle(img) EXCEPT !.faults = F] >> :
        img \in Images, F \in FaultSets({"align.warpPerspective"})}

InitializeTemplate == \E in \in TemplateInputs : InitStep(in)

AlignWithTemplate == \E in \in UserInputs : AlignStep(in)

NextTemplates == InitializeTemplate \/ AlignWithTemplate \/ Cleanup

\* the aligner initialized, used and torn down with templates whose frames
\* tell them apart
SpecTemplates == Init /\ [][NextTemplates]_vars

\* ------------------------------------------------------- the host (main.js)
RECURSIVE SumOver(_, _)
SumOver(f, S) ==
    IF S = {} THEN 0
    ELSE LET k == CHOOSE x \in S : TRUE IN f[k] + SumOver(f, S \ {k})

\* the buffers an operation acquired and left alive when it returned
LiveCount(e) == SumOver(e.live, Kinds)

HostTemplates == {Img(MaxDim, MaxDim)}
HostMasks == {Img(w, MaxDim) : w \in Widths}

\* an image whose line detection finds the four corners of a frame
FramedOracle == [DefaultOracle EXCEPT !.linePoints = Lines4]
\* an image without detectable features whose outline is a quadrilateral
OutlineOracle ==
    [DefaultOracle EXCEPT !.areas = <<3, 1>>,
                          !.approx = << Pt(4, 4), Pt(0, 0), Pt(0, 4), Pt(4, 0) >>]

HostInitOracles ==
    {FramedOracle, DefaultOracle, [DefaultOracle EXCEPT !.faults = {"pre.cvtColor"}]}

HostAlignOracles ==
    {FramedOracle, OutlineOracle, DefaultOracle,
     [FramedOracle EXCEPT !.faults = {"align.warpPerspective"}]}

\* the guards at the head of a host operation: the warning shown by the first
\* guard that rejects the call, or NoError when the call passes them all
hostGuard_NoBusy(op, busy) ==
    IF op # "loadTemplateImage" /\ ~templateLoaded THEN MsgNoTemplate
    ELSE IF op \in {"performAlignment", "performRecognition"} /\ maskImage.isNull
         THEN MsgNoMask
    ELSE NoError

hostGuard(op, busy) ==
    IF busy THEN MsgBusy
    ELSE IF op # "loadTemplateImage" /\ ~templateLoaded THEN MsgNoTemplate
    ELSE IF op \in {"performAlignment", "performRecognition"} /\ maskImage.isNull
         THEN MsgNoMask
    ELSE NoError

\* a rejected call clearing the busy flag on its way out
HostRejected_ClearsBusy(op, msg) ==
    /\ last' = Observed(op, isInitialized, FALSE, NoResult, FALSE, msg, NoEffects)
    /\ isProcessing' = FALSE
    /\ UNCHANGED << alignerVars, templateLoaded, maskImage, pending, liveBuffers >>

\* a call rejected by a guard: showMessage(..., 'warning') and return
HostRejected(op, msg) ==
    /\ last' = Observed(op, isInitialized, FALSE, NoResult, FALSE, msg, NoEffects)
    /\ UNCHANGED << alignerVars, hostVars >>

\* img.onload of loadAndDisplayTemplateImage (run by initialize and by the
\* load button): the template is drawn and templateLoaded is set
TemplateImageOnload ==
    /\ templateLoaded' = TRUE
    /\ UNCHANGED << alignerVars, last, isProcessing, maskImage, pending, liveBuffers >>

\* loadTemplateImage(manualPath) up to its await of the image load
LoadTemplateImage ==
    \E g \in {hostGuard("loadTemplateImage", isProcessing)} :
        \/ /\ g # NoError
           /\ HostRejected("loadTemplateImage", g)
        \/ /\ g = NoError
           /\ isProcessing' = TRUE
           /\ pending' = pending \cup {"loadTemplateImage"}
           /\ UNCHANGED << alignerVars, last, templateLoaded, maskImage, liveBuffers >>

\* loadTemplateImage from the await on: the wait for OpenCV or the image load
\* was rejected, or the image was loaded and the aligner is initialized
LoadTemplateImageResume ==
    \/ /\ "loadTemplateImage" \in pending
       /\ isProcessing' = FALSE
       /\ pending' = pending \ {"loadTemplateImage"}
       /\ last' = Observed("loadTemplateImage", isInitialized, FALSE, NoResult, FALSE,
                           MsgTemplateLoadFailed, NoEffects)
       /\ UNCHANGED << alignerVars, templateLoaded, maskImage, liveBuffers >>
    \/ \E in \in HostTemplates \X HostInitOracles :
         /\ "loadTemplateImage" \in pending
         /\ \E r \in {initializeWithTemplate(session, in[1], in[2])} :
            /\ liveBuffers + LiveCount(r.e) <= MaxLive
            /\ templatePoints' = r.s.templatePoints
            /\ templateSize' = r.s.templateSize
            /\ isInitialized' = r.s.isInitialized
            /\ templateLoaded' = (templateLoaded \/ r.returned)
            /\ isProcessing' = FALSE
            /\ pending' = pending \ {"loadTemplateImage"}
            /\ liveBuffers' = liveBuffers + LiveCount(r.e)
            /\ last' = Observed("initializeWithTemplate", isInitialized, r.returned,
                                NoResult, r.raised, r.caught, r.e)
            /\ UNCHANGED << templateImage, maskImage >>

\* handleMaskUpload(file) up to its await of the image load; a file of the
\* wrong type or size is refused inside the try block, whose finally block
\* clears the flag the try block had set
HandleMaskUpload ==
    \E g \in {hostGuard("handleMaskUpload", isProcessing)} :
        \/ /\ g # NoError
           /\ HostRejected("handleMaskUpload", g)
        \/ /\ g = NoError
           /\ isProcessing' = FALSE
           /\ last' = Observed("handleMaskUpload", isInitialized, FALSE, NoResult, FALSE,
                               MsgBadFile, NoEffects)
           /\ UNCHANGED << alignerVars, templateLoaded, maskImage, pending, liveBuffers >>
        \/ /\ g = NoError
           /\ isProcessing' = TRUE
           /\ pending' = pending \cup {"handleMaskUpload"}
           /\ UNCHANGED << alignerVars, last, templateLoaded, maskImage, liveBuffers >>

\* the catch and finally blocks of handleMaskUpload leaving the flag set
\* when the load is rejected
HandleMaskUploadResume_NoFinally ==
    \/ /\ "handleMaskUpload" \in pending
       /\ pending' = pending \ {"handleMaskUpload"}
       /\ last' = Observed("handleMaskUpload", isInitialized, FALSE, NoResult, FALSE,
                           MsgMaskLoadFailed, NoEffects)
       /\ UNCHANGED << alignerVars, isProcessing, templateLoaded, maskImage, liveBuffers >>
    \/ \E img \in HostMasks :
            /\ "handleMaskUpload" \in pending
            /\ maskImage' = img
            /\ isProcessing' = FALSE
            /\ pending' = pending \ {"handleMaskUpload"}
            /\ last' = Observed("handleMaskUpload", isInitialized, TRUE, NoResult, FALSE,
                                NoError, NoEffects)
            /\ UNCHANGED << alignerVars, templateLoaded, liveBuffers >>

\* handleMaskUpload from the await on: the load was rejected, or the image
\* is stored as maskImage
HandleMaskUploadResume ==
    \/ /\ "handleMaskUpload" \in pending
       /\ isProcessing' = FALSE
       /\ pending' = pending \ {"handleMaskUpload"}
       /\ last' = Observed("handleMaskUpload", isInitialized, FALSE, NoResult, FALSE,
                           MsgMaskLoadFailed, NoEffects)
       /\ UNCHANGED << alignerVars, templateLoaded, maskImage, liveBuffers >>
    \/ \E img \in HostMasks :
            /\ "handleMaskUpload" \in pending
            /\ maskImage' = img
            /\ isProcessing' = FALSE
            /\ pending' = pending \ {"handleMaskUpload"}
            /\ last' = Observed("handleMaskUpload", isInitialized, TRUE, NoResult, FALSE,
                                NoError, NoEffects)
            /\ UNCHANGED << alignerVars, templateLoaded, liveBuffers >>

\* the aligner left alone by a host call that one of its guards rejected
NotCalled(s) ==
    [raised |-> FALSE, ret |-> NoResult, caught |-> NoError, e |-> NoEffects, s |-> s]

\* performAlignment() called while the busy flag reads busy: the guards,
\* aligner.alignUserImage(maskImage) and, on success, displayAlignedImage,
\* which draws the aligned Mat and does not delete it; a call that passes the
\* guards sets isProcessing and clears it in its finally block
performAlignment(busy, s, o) ==
    LET g == hostGuard("performAlignment", busy)
        r == alignUserImage(s, maskImage, o)
    IN  IF g # NoError THEN [r |-> NotCalled(s), passed |-> FALSE, shown |-> g]
        ELSE [r |-> r, passed |-> TRUE,
              shown |-> IF r.ret.success THEN NoError ELSE MsgHostAlignFailed]

PerformAlignment ==
    \E o \in HostAlignOracles :
      \E c \in {performAlignment(isProcessing, session, o)} :
        \/ /\ ~c.passed
           /\ HostRejected("performAlignment", c.shown)
        \/ /\ c.passed
           /\ liveBuffers + LiveCount(c.r.e) <= MaxLive
           /\ templatePoints' = c.r.s.templatePoints
           /\ templateSize' = c.r.s.templateSize
           /\ isInitialized' = c.r.s.isInitialized
           /\ isProcessing' = FALSE
           /\ liveBuffers' = liveBuffers + LiveCount(c.r.e)
           /\ last' = Observed("alignUserImage", isInitialized, FALSE,
                               c.r.ret, c.r.raised, c.r.caught, c.r.e)
           /\ UNCHANGED << templateImage, templateLoaded, maskImage, pending >>

\* what the performAlignment call of line 555 did, as performRecognition
\* sees it: the call, and the aligner's steps when the call got that far
nestedCall(c) ==
    [c.r.e EXCEPT !.trace = << "performAlignment" >>
                              \o (IF c.passed THEN << "alignUserImage" >> ELSE <<>>) \o @]

\* performRecognition() up to its await of simulateRecognition's timer: the
\* guards, isProcessing = true, and, this.aligner.isAligned being a field no
\* code assigns, the call of performAlignment, made with the flag already set
PerformRecognition ==
    \E o \in HostAlignOracles :
      \E g \in {hostGuard("performRecognition", isProcessing)} :
        \E c \in {performAlignment(TRUE, session, o)} :
          \/ /\ g # NoError
             /\ HostRejected("performRecognition", g)
          \/ /\ g = NoError
             /\ liveBuffers + LiveCount(c.r.e) <= MaxLive
             /\ templatePoints' = c.r.s.templatePoints
             /\ templateSize' = c.r.s.templateSize
             /\ isInitialized' = c.r.s.isInitialized
             /\ isProcessing' = ~c.passed
             /\ pending' = pending \cup {"performRecognition"}
             /\ liveBuffers' = liveBuffers + LiveCount(c.r.e)
             /\ last' = Observed("performRecognition", isInitialized, c.passed,
                                 c.r.ret, c.r.raised, c.shown, nestedCall(c))
             /\ UNCHANGED << templateImage, templateLoaded, maskImage >>

\* performRecognition from the await on: simulateRecognition's timer has
\* fired, the result is drawn and the finally block clears the flag
PerformRecognitionResume ==
    /\ "performRecognition" \in pending
    /\ isProcessing' = FALSE
    /\ pending' = pending \ {"performRecognition"}
    /\ last' = Observed("performRecognition", isInitialized, TRUE, NoResult, FALSE,
                        NoError, Step(NoEffects, "simulateRecognition"))
    /\ UNCHANGED << alignerVars, templateLoaded, maskImage, liveBuffers >>

\* cleanup() of the host: aligner.cleanup() and imageProcessor.cleanup(); the
\* host's own flags are not touched
HostCleanup ==
    LET s == cleanup(session, templateImage)
    IN  /\ templateImage' = NullMat
        /\ templatePoints' = s.templatePoints
        /\ templateSize' = s.templateSize
        /\ isInitialized' = s.isInitialized
        /\ last' = Observed("cleanup", isInitialized, FALSE, NoResult, FALSE, NoError,
                            NoEffects)
        /\ UNCHANGED hostVars

NextHost ==
    \/ TemplateImageOnload
    \/ LoadTemplateImage
    \/ LoadTemplateImageResume
    \/ HandleMaskUpload
    \/ HandleMaskUploadResume
    \/ PerformAlignment
    \/ PerformRecognition
    \/ PerformRecognitionResume
    \/ HostCleanup

SpecHost == Init /\ [][NextHost]_vars

\* every image load and timer a host operation waits for eventually fires
\* (FileReader and Image call onload or onerror, waitForOpenCV rejects after
\* 30 s, simulateRecognition's timer fires after 1 s)
HostFairness ==
    /\ WF_vars(LoadTemplateImageResume)
    /\ WF_vars(HandleMaskUploadResume)
    /\ WF_vars(PerformRecognitionResume)

SpecHostLive == SpecHost /\ HostFairness

\* ------------------- removeDuplicatePoints and findLinesAndPoints on their own
DedupPoints == {Pt(0, 0), Pt(9, 9), Pt(10, 0), Pt(0, 10), Pt(18, 9)}

Thresholds == {DedupThreshold, DedupThreshold + 1}

Triangle == << Pt(0, 0), Pt(40, 0), Pt(20, 40) >>

DetectContourChoices ==
    ContourChoices \cup { << [area |-> 101, approx |-> Triangle] >>,
                          << [area |-> 101, approx |-> Triangle],
                             [area |-> 101, approx |-> Quad] >> }

DetectOracles ==
    {[DefaultOracle EXCEPT !.faults = F, !.linePoints = l, !.contours = c] :
        F \in FaultSets(DetectSites), l \in LineChoices, c \in DetectContourChoices}

DetectInputs ==
    {o \in DetectOracles :
        Relevant(o, findLinesAndPoints(Mat(MaxDim, MaxDim, 1), o, NoEffects).e)}

\* removeDuplicatePoints(points, threshold) called on its own
RemoveDuplicatePoints ==
    \E points \in SeqsUpTo(DedupPoints, MaxPoints), threshold \in Thresholds :
        /\ last' = [op |-> "removeDuplicatePoints", points |-> points,
                    threshold |-> threshold,
                    ret |-> removeDuplicatePoints(points, threshold)]
        /\ UNCHANGED << alignerVars, hostVars >>

\* findLinesAndPoints(binaryImage) called on its own
FindLinesAndPoints ==
    \E o \in DetectInputs :
      \E r \in {findLinesAndPoints(Mat(MaxDim, MaxDim, 1), o, NoEffects)} :
        /\ last' = [op |-> "findLinesAndPoints", o |-> o, raised |-> r.threw,
                    ret |-> r.val, hits |-> r.e.hits, leak |-> r.e.live]
        /\ UNCHANGED << alignerVars, hostVars >>

NextDetector == RemoveDuplicatePoints \/ FindLinesAndPoints

SpecDetector == Init /\ [][NextDetector]_vars

\* ================================================================= claims
ReadyUnchanged == UNCHANGED << templatePoints, templateSize, isInitialized >>

InSeq(x, seq) == \E i \in 1..Len(seq) : seq[i] = x

Occurrences(x, seq) == Cardinality({i \in 1..Len(seq) : seq[i] = x})

FailureResult(r) ==
    /\ r.success = FALSE
    /\ r.alignedImage = NullMat
    /\ r.error \notin {NoError, NoValue}

SuccessResult(r) ==
    /\ r.success = TRUE
    /\ r.alignedImage.isNull = FALSE
    /\ r.error = NoError

\* C1: alignUserImage on a session that is not Ready returns the error
\* result {success:false, alignedImage:null, error} to its caller, reads no
\* image, acquires no buffer and leaves templatePoints, templateSize and the
\* ready flag as they were.
C1_NotReadyRejected ==
    [][ (~isInitialized /\ last'.op = "alignUserImage")
        => /\ FailureResult(last'.ret)
           /\ ~last'.raised
           /\ last'.trace = <<>>
           /\ last'.acq = 0
           /\ ReadyUnchanged ]_vars

\* reached: a call rejected on a session whose initialization had failed
C1_Witness ==
    /\ last.op = "alignUserImage"
    /\ ~last.wasReady
    /\ last.ret.error = MsgNotInitialized
    /\ templateSize # Size(0, 0)

\* C2: a call of alignUserImage on a Ready session raises nothing and
\* returns either a success result with an image and no error, or a failure
\* result with an error and no image.
C2_TaggedResult ==
    (last.op = "alignUserImage" /\ last.wasReady)
        => /\ ~last.raised
           /\ \/ SuccessResult(last.ret)
              \/ FailureResult(last.ret)

\* reached: a library fault after the source Mat was read, surfaced as a
\* failure result
C2_Witness ==
    /\ last.op = "alignUserImage"
    /\ last.wasReady
    /\ last.hits # {}
    /\ last.leak["mat"] = 1
    /\ FailureResult(last.ret)

PrimaryFaulted ==
    /\ last.op = "alignUserImage"
    /\ last.detect = "ok"
    /\ last.hits \cap {"align.getPerspectiveTransform", "align.warpPerspective"} # {}

\* C3 as stated: when detection succeeded and the homography or the warp
\* throws, the FallbackAligner is invoked before the result is returned.
C3_Original == PrimaryFaulted => InSeq("fallbackAlignment", last.trace)

\* C3 amended: when detection succeeded and the homography or the warp
\* throws, the FallbackAligner is not invoked; the call returns a failure
\* result whose error is the message of that fault.
C3_PrimaryFaultSurfaced ==
    PrimaryFaulted
        => /\ ~InSeq("fallbackAlignment", last.trace)
           /\ last.fallbackError = NoValue
           /\ FailureResult(last.ret)
           /\ last.ret.error \in {MsgLibrary("align.getPerspectiveTransform"),
                                  MsgLibrary("align.warpPerspective")}
           /\ last.ret.error \in last.hits

\* reached: the warp threw after a successful detection
C3_Witness == PrimaryFaulted /\ last.ret.error = MsgLibrary("align.warpPerspective")

\* the four geometric corners of an image of the given size
CornerPoints(size) ==
    << Pt(0, 0), Pt(size.width, 0), Pt(size.width, size.height), Pt(0, size.height) >>

\* C4: initializeWithTemplate on a template whose detection fails stores the
\* four corners of the template image as templatePoints and, when no other
\* step faults, ends Ready and returns true.
C4_CornerFallback ==
    (last.op = "initializeWithTemplate" /\ last.detect = "failed" /\ last.hits = {})
        => /\ templatePoints = CornerPoints(templateSize)
           /\ isInitialized
           /\ last.returned

InitChain == << "libraryCheck", "imread", "preprocessImage", "findLinesAndPoints",
                "storePoints", "release" >>

\* C5: initializeWithTemplate raises nothing and returns the ready flag it
\* leaves; it returns true only when the whole chain (library check, image
\* read, preprocessing, detection, point storage) completed, and a fault
\* that reaches its boundary leaves ready=false and returns false.
C5_ReadyIffChainCompleted ==
    last.op = "initializeWithTemplate"
        => /\ ~last.raised
           /\ last.returned = isInitialized
           /\ last.returned => (last.trace = InitChain /\ last.caught = NoError
                                 /\ last.detect = "ok")
           /\ last.caught # NoError => (~last.returned /\ ~isInitialized)

\* reached: a re-initialization of a Ready session that faulted
C5_Witness ==
    /\ last.op = "initializeWithTemplate"
    /\ last.wasReady
    /\ last.caught # NoError
    /\ ~isInitialized

\* C6 as stated: once Ready, templatePoints, templateSize and the ready flag
\* keep their values under every later operation other than cleanup.
C6_Original ==
    [][ (isInitialized /\ last'.op # "cleanup") => ReadyUnchanged ]_vars

\* C6 amended: once Ready, templatePoints, templateSize and the ready flag
\* keep their values under every later operation other than cleanup and a
\* further initializeWithTemplate (which overwrites templateSize and, when
\* it faults, clears the ready flag).
C6_ImmutableUntilReinitOrCleanup ==
    [][ (isInitialized /\ last'.op \notin {"cleanup", "initializeWithTemplate"})
        => ReadyUnchanged ]_vars

\* reached: a failed alignment on a Ready session holding detected points
C6_Witness ==
    /\ last.op = "alignUserImage"
    /\ last.wasReady
    /\ ~last.ret.success
    /\ isInitialized
    /\ Len(templatePoints) > RequiredPoints

\* C7: alignUserImage on a Ready session, on every path, leaves
\* templatePoints, templateSize and the ready flag unchanged; the session is
\* Ready when the call returns, and a further call on it runs the pipeline
\* again.
C7_ReadyAfterAlign ==
    [][ (isInitialized /\ last'.op = "alignUserImage")
        => /\ ReadyUnchanged
           /\ isInitialized'
           /\ last'.wasReady
           /\ last'.trace # <<>>
           /\ last'.trace[1] = "imread" ]_vars

\* reached: a primary-path success on a Ready session
C7_Witness ==
    /\ last.op = "alignUserImage"
    /\ last.wasReady
    /\ last.detect = "ok"
    /\ last.ret.success
    /\ isInitialized

\* C8: every success result of alignUserImage carries an image of exactly
\* the recorded templateSize.
C8_OutputHasTemplateSize ==
    (last.op = "alignUserImage" /\ last.ret.success)
        => /\ last.ret.alignedImage.isNull = FALSE
           /\ last.ret.alignedImage.cols = templateSize.width
           /\ last.ret.alignedImage.rows = templateSize.height

\* reached: a fallback-path success for a template narrower than MaxDim
C8_Witness ==
    /\ last.op = "alignUserImage"
    /\ last.ret.success
    /\ last.detect = "failed"
    /\ last.ret.alignedImage.cols = MaxDim - 1

DetectionFailed == last.op = "alignUserImage" /\ last.detect = "failed"

NoStepRepeated(trace) ==
    \A i, j \in 1..Len(trace) : trace[i] = trace[j] => i = j

\* C9: when detection on the sample fails, alignUserImage invokes the
\* FallbackAligner exactly once and never computes the primary homography; a
\* fallback success is the call's success result; no step runs twice.
C9_FallbackOnce ==
    DetectionFailed
        => /\ Occurrences("fallbackAlignment", last.trace) = 1
           /\ ~InSeq("calculatePerspectiveTransform", last.trace)
           /\ ~InSeq("warpPerspective", last.trace)
           /\ last.fallbackError # NoValue
           /\ last.fallbackError = NoError => SuccessResult(last.ret)
           /\ NoStepRepeated(last.trace)

\* reached: detection failed and the fallback succeeded
C9_Witness == DetectionFailed /\ last.fallbackError = NoError /\ last.ret.success

FallbackFailed ==
    /\ last.op = "alignUserImage"
    /\ last.fallbackError \notin {NoValue, NoError}

\* C10 as stated: when the FallbackAligner fails, the failure result carries
\* the fallback's own failure reason as its error.
C10_Original == FallbackFailed => last.ret.error = last.fallbackError

\* C10 amended: when the FallbackAligner fails, the failure result carries
\* the fixed message of line 161 as its error, whatever the fallback's own
\* reason was.
C10_FixedFallbackError ==
    FallbackFailed
        => /\ FailureResult(last.ret)
           /\ last.ret.error = MsgAlignFailed
           /\ last.caught = MsgAlignFailed

\* reached: the fallback failed with NotQuadrilateral
C10_Witness == FallbackFailed /\ last.fallbackError = MsgNotQuadrilateral

\* ------------------------------------------------------------ C11 .. C20
FallbackCall == last.op = "fallbackAlignment"

\* the fallback got as far as the area check
AreaCheckReached ==
    last.hits \cap {"fallback.cvtColor", "fallback.threshold", "fallback.findContours"} = {}

\* no contour of positive area, or every contour below 10% of rows x cols
NoOuterFrame(areas, mat) ==
    \/ \A i \in 1..Len(areas) : areas[i] <= 0
    \/ \A i \in 1..Len(areas) : areas[i] * 10 < mat.rows * mat.cols

\* C11: fallbackAlignment fails with NoOuterFrameFound exactly when no
\* contour has positive area or the largest area is below 10% of rows x cols
\* (exactly 10% passes), and with NotQuadrilateral exactly when that check
\* passed and the approximation of the largest contour has a vertex count
\* other than 4; both failures are returned as {success:false,
\* alignedImage:null, error}.
C11_FallbackFailures ==
    (FallbackCall /\ AreaCheckReached)
        => /\ last.ret.error = MsgNoOuterFrame
                <=> NoOuterFrame(last.o.areas, last.srcMat)
           /\ "fallback.approxPolyDP" \notin last.hits
                => (last.ret.error = MsgNotQuadrilateral
                      <=> /\ ~NoOuterFrame(last.o.areas, last.srcMat)
                          /\ Len(last.o.approx) # 4)
           /\ last.ret.error \in {MsgNoOuterFrame, MsgNotQuadrilateral}
                => (~last.ret.success /\ last.ret.alignedImage = NullMat)

\* reached: a largest contour of exactly 10% of the frame passed the area
\* check and was refused for its vertex count
C11_Witness ==
    /\ FallbackCall
    /\ \E i \in 1..Len(last.o.areas) :
            /\ last.o.areas[i] * 10 = last.srcMat.rows * last.srcMat.cols
            /\ \A j \in 1..Len(last.o.areas) : last.o.areas[j] <= last.o.areas[i]
    /\ last.ret.error = MsgNotQuadrilateral

\* the buffers alignUserImage, calculatePerspectiveTransform and
\* fallbackAlignment acquire under a kind no other step leaves alive (the
\* contour sets share their kind with the Preprocessor's)
AlignOwnKinds == {"mat", "binary", "pointMatrix", "M", "gray", "approx", "contour"}

\* C12: when alignUserImage returns, on every exit path, the source Mat, the
\* binary mask, the two point matrices, the homography matrix and the
\* fallback's intermediates have been released; at most the returned
\* aligned image is alive.
C12_AllReleased ==
    (last.op = "alignUserImage" /\ last.wasReady)
        => /\ \A k \in AlignOwnKinds : last.leak[k] = 0
           /\ last.leak["aligned"] = (IF last.ret.success THEN 1 ELSE 0)

PreprocessCall == last.op = "preprocessImage"

\* C13: preprocessImage releases the grayscale buffer, the candidate
\* binarizations and the contour sets used for scoring on every exit path:
\* after a normal return only the returned binary image is alive, and after
\* a throw nothing it allocated is alive.
C13_PreprocessReleases ==
    PreprocessCall
        => last.leak = (IF last.raised THEN NoBuffers
                        ELSE [NoBuffers EXCEPT !["binary"] = 1])

\* valid-contour count of candidate i of the last call
Score(i) ==
    Cardinality({j \in 1..Len(last.candidates[i]) : last.candidates[i][j] > 10})

\* C18: preprocessImage returns the candidate with the largest count of
\* contours of area above 10 and, on a tie, the earliest of them in the
\* order automatic threshold, adaptive, fixed 128.
C18_BestCandidate ==
    (PreprocessCall /\ ~last.raised /\ last.hits = {})
        => /\ last.ret.method \in 1..3
           /\ \A j \in 1..3 :
                /\ Score(j) <= Score(last.ret.method)
                /\ j < last.ret.method => Score(j) < Score(last.ret.method)

\* reached: the second and third candidates tie above the first, and the
\* second is returned
C18_Witness ==
    /\ PreprocessCall /\ ~last.raised /\ last.hits = {}
    /\ Score(2) = Score(3)
    /\ Score(1) < Score(2)
    /\ last.ret.method = 2

\* C14: when initializeWithTemplate returns, on every exit path including
\* every failing one, the template Mat and its binary mask have been
\* released.
C14_TemplateReleased ==
    last.op = "initializeWithTemplate"
        => /\ last.leak["mat"] = 0
           /\ last.leak["binary"] = 0

MaxOf(S) == CHOOSE n \in S : \A m \in S : m <= n

\* the most buffers one template load and one alignment acquire together
LiveBound ==
    MaxOf({initializeWithTemplate(ProbeSession(FALSE), img, o).e.acq :
               img \in HostTemplates, o \in HostInitOracles})
    + MaxOf({alignUserImage(ProbeSession(TRUE), img, o).e.acq :
                 img \in HostMasks, o \in HostAlignOracles})

\* C15: however many alignments the host has completed on one session, the
\* number of native buffers alive stays within a bound that does not grow
\* with the number of operations: here, what one template load and one
\* alignment acquire.
C15_LiveBounded == liveBuffers <= LiveBound

\* p and q differ by less than t on both axes
Close(p, q, t) ==
    /\ p.x - q.x < t /\ q.x - p.x < t
    /\ p.y - q.y < t /\ q.y - p.y < t

\* u keeps, in the order of p, exactly the entries of p that are not Close
\* to an entry kept before them
KeepsFirstOccurrences(u, p, t) ==
    \E f \in [1..Len(u) -> 1..Len(p)] :
        /\ \A k \in 1..Len(u) : u[k] = p[f[k]]
        /\ \A j, k \in 1..Len(u) : j < k => (f[j] < f[k] /\ ~Close(u[j], u[k], t))
        /\ \A i \in 1..Len(p) :
              (\A k \in 1..Len(u) : f[k] # i)
                  => \E k \in 1..Len(u) : f[k] < i /\ Close(u[k], p[i], t)

\* C16: removeDuplicatePoints(points, t) returns the points in order of first
\* occurrence, dropping a point exactly when an already kept point differs
\* from it by strictly less than t on both x and y.
C16_DedupKeepsFirst ==
    last.op = "removeDuplicatePoints"
        => KeepsFirstOccurrences(last.ret, last.points, last.threshold)

\* reached: with t=10 a point 9 apart on both axes was merged and a point
\* exactly 10 apart on one axis was kept
C16_Witness ==
    /\ last.op = "removeDuplicatePoints"
    /\ last.threshold = 10
    /\ last.points = << Pt(0, 0), Pt(9, 9), Pt(10, 0) >>
    /\ last.ret = << Pt(0, 0), Pt(10, 0) >>

\* the line endpoints and the corners of the four-cornered contours of area
\* above 100
MergedPoints(o) ==
    {o.linePoints[i] : i \in 1..Len(o.linePoints)}
        \cup UNION {{o.contours[i].approx[j] : j \in 1..Len(o.contours[i].approx)} :
                       i \in {k \in 1..Len(o.contours) :
                                 /\ o.contours[k].area > 100
                                 /\ Len(o.contours[k].approx) = 4}}

C19_FirstFourPaired ==
    (last.op = "alignUserImage" /\ last.transform.computed)
        => /\ Len(last.transform.srcPoints) >= 4
           /\ Len(last.transform.dstPoints) >= 4
           /\ DOMAIN last.transform.srcMat = 1..4
           /\ DOMAIN last.transform.dstMat = 1..4
           /\ \A i \in 1..4 :
                /\ last.transform.srcMat[i] = last.transform.srcPoints[i]
                /\ last.transform.dstMat[i] = last.transform.dstPoints[i]

\* reached: a primary-path homography from more than four sample points
\* onto more than four template points
C19_Witness ==
    /\ last.op = "alignUserImage"
    /\ last.detect = "ok"
    /\ last.transform.computed
    /\ Len(last.transform.srcPoints) > 4
    /\ Len(last.transform.dstPoints) > 4
    /\ last.transform.dstPoints = templatePoints

\* C20: whenever the session is Ready, templatePoints holds at least 4
\* points; an initializeWithTemplate whose detection yields at least 4
\* unique points ends Ready, returns true and has recorded those points.
C20_ReadyHasFourPoints ==
    /\ isInitialized => Len(templatePoints) >= 4
    /\ (last.op = "initializeWithTemplate" /\ last.detect = "ok")
          => /\ isInitialized
             /\ last.returned
             /\ Len(templatePoints) >= 4

\* reached: a template initialized to Ready with exactly four points
C20_Witness ==
    /\ last.op = "initializeWithTemplate"
    /\ last.detect = "ok"
    /\ isInitialized
    /\ Len(templatePoints) = 4

\* ----------------------------------------------------------- C21 .. C30
\* the matrix handed to preprocessImage is missing or has no width or height
EmptyInput(m) == m.isNull \/ m.cols = 0 \/ m.rows = 0

\* the Error preprocessImage creates for such a matrix (lines 214-220)
EmptyInputError(m) == IF m.isNull THEN MsgMatEmpty ELSE MsgMatSize

\* the last operation handed such a matrix to preprocessImage
PreprocessGotEmpty ==
    /\ last.op \in {"initializeWithTemplate", "alignUserImage"}
    /\ last.preInput # <<>>
    /\ EmptyInput(last.preInput[1])

\* C21: preprocessImage called with a missing matrix, or one of zero width
\* or zero height, throws an Error and produces no binary image (it acquires
\* no buffer at all); inside initializeWithTemplate that fault ends the call
\* not Ready with false returned; inside alignUserImage it ends the call
\* with {success:false, alignedImage:null, error: the fault's message} and
\* the session still Ready.
C21_EmptyInputRejected ==
    /\ (last.op = "preprocessImage" /\ EmptyInput(last.srcMat))
          => /\ last.raised
             /\ last.error = EmptyInputError(last.srcMat)
             /\ last.ret = NullMat
             /\ last.leak = NoBuffers
    /\ PreprocessGotEmpty
          => /\ last.trace[Len(last.trace)] = "preprocessImage"
             /\ last.acq = 1
             /\ last.leak["binary"] = 0
             /\ last.op = "initializeWithTemplate"
                   => (~isInitialized /\ ~last.returned)
             /\ last.op = "alignUserImage"
                   => /\ last.ret = AlignResult(FALSE, NullMat, MsgMatSize)
                      /\ last.wasReady
                      /\ isInitialized

\* reached: alignUserImage on a Ready session with a sample of zero height,
\* answered with the size error and the session still Ready
C21_Witness ==
    /\ last.op = "alignUserImage"
    /\ PreprocessGotEmpty
    /\ last.preInput[1].cols > 0
    /\ last.preInput[1].rows = 0
    /\ last.ret.error = MsgMatSize
    /\ isInitialized

\* the aligner operations the host invokes
AlignerOps == {"alignUserImage", "initializeWithTemplate"}

\* a step in which the host has called the aligner: the call is observed in
\* last, or its buffers are added to the page's
AlignerCalled == last'.op \in AlignerOps /\ (last' # last \/ liveBuffers' # liveBuffers)

\* C22: under every interleaving of UI events and completions at most one of
\* loadTemplateImage, handleMaskUpload, performAlignment and
\* performRecognition is between passing its guards and completing, the busy
\* flag is set exactly while one is, and the aligner is called only by the one
\* operation in progress: alignUserImage with no operation suspended,
\* initializeWithTemplate by the resumed loadTemplateImage alone
C22_BusyFlagSerializes ==
    /\ [](Cardinality(pending) <= 1 /\ (isProcessing <=> pending # {}))
    /\ [][AlignerCalled =>
            /\ pending' = {}
            /\ last'.op = "alignUserImage" => pending = {} /\ ~isProcessing
            /\ last'.op = "initializeWithTemplate" => pending = {"loadTemplateImage"}]_vars

\* a click on the align button while an upload is being decoded is rejected
C22_Witness ==
    /\ pending = {"handleMaskUpload"}
    /\ isProcessing
    /\ last.op = "performAlignment"
    /\ last.caught = MsgBusy

\* the size and the points are those of one template image
SameTemplate(size, points) ==
    \E img \in Images :
        /\ ~img.isNull
        /\ size = Size(img.width, img.height)
        /\ points = FrameOf(img)

\* C30: whenever the session is Ready, templateSize and templatePoints were
\* recorded from the same template image, after any sequence of successful
\* and failed initializeWithTemplate calls, alignUserImage calls and cleanups
C30_SizeAndPointsAgree == isInitialized => SameTemplate(templateSize, templatePoints)

\* a Ready session re-initialized with a template of another size
C30_Witness ==
    /\ isInitialized
    /\ last.op = "initializeWithTemplate"
    /\ last.wasReady
    /\ last.returned
    /\ templateSize = Size(MaxDim - 1, MaxDim)

\* C23: initializeWithTemplate and alignUserImage run from their first to
\* their last access of the session without a suspension point: a step that
\* writes templateSize or templatePoints is a whole initializeWithTemplate
\* call, leaving a Ready session with the size and points of one template or
\* a session that is not Ready, and an alignment on the primary path has used
\* the templatePoints and the templateSize the session holds when it returns
C23_NoPartialUpdate ==
    /\ [][(templateSize' # templateSize \/ templatePoints' # templatePoints) =>
            /\ last'.op = "initializeWithTemplate"
            /\ IF last'.returned
               THEN isInitialized' /\ SameTemplate(templateSize', templatePoints')
               ELSE ~isInitialized']_vars
    /\ []((last.op = "alignUserImage" /\ last.ret.success /\ last.detect = "ok") =>
            /\ last.transform.dstPoints = templatePoints
            /\ last.ret.alignedImage.cols = templateSize.width
            /\ last.ret.alignedImage.rows = templateSize.height)

\* an alignment on the primary path against the smaller template
C23_Witness ==
    /\ last.op = "alignUserImage"
    /\ last.ret.success
    /\ last.detect = "ok"
    /\ templateSize = Size(MaxDim - 1, MaxDim)
    /\ last.transform.dstPoints = FrameOf(Img(MaxDim - 1, MaxDim))

\* performRecognition has passed its guards and reached its await
RecognitionStarted ==
    /\ last.op = "performRecognition"
    /\ Len(last.trace) > 0
    /\ last.trace[1] = "performAlignment"

\* C24: a performRecognition call that passes its guards, the image being not
\* aligned, runs the alignment first: aligner.alignUserImage is invoked
\* through performAlignment before the recognition is started
C24_AlignsBeforeRecognition ==
    RecognitionStarted => \E i \in 1..Len(last.trace) : last.trace[i] = "alignUserImage"

\* C25: cleanup leaves the session not Ready; a session that is not Ready
\* becomes Ready only by an initializeWithTemplate call that succeeds; until
\* then every alignUserImage call returns the not-initialized error result
\* without running any step of the pipeline, and once the session is Ready
\* again alignUserImage runs the pipeline
C25_NotReadyAfterCleanup ==
    /\ [][last'.op = "cleanup" => ~isInitialized']_vars
    /\ [][(~isInitialized /\ isInitialized') =>
            last'.op = "initializeWithTemplate" /\ last'.returned]_vars
    /\ []((last.op = "alignUserImage" /\ ~last.wasReady) =>
            /\ last.ret = AlignResult(FALSE, NullMat, MsgNotInitialized)
            /\ last.trace = <<>>
            /\ last.acq = 0)
    /\ []((last.op = "alignUserImage" /\ last.wasReady) =>
            /\ Len(last.trace) > 0
            /\ last.trace[1] = "imread"
            /\ last.ret.error # MsgNotInitialized)

\* an alignment refused on a session that was initialized and then cleaned up
C25_Witness ==
    /\ last.op = "alignUserImage"
    /\ ~last.wasReady
    /\ last.ret.error = MsgNotInitialized
    /\ templatePoints = FrameOf(Img(MaxDim, MaxDim))

\* C26: in every reachable state in which the host's templateLoaded flag is
\* true the aligner session is Ready, so a performAlignment call that passes
\* its guards is never answered by alignUserImage with the not-initialized
\* error
C26_ReadinessAgrees ==
    /\ templateLoaded => isInitialized
    /\ last.op = "alignUserImage" => last.ret.error # MsgNotInitialized

\* C27: every guarded host operation that sets isProcessing clears it on
\* every exit path: provided each pending image load or timer eventually
\* fires, a set flag is eventually cleared, and the flag is set in no state in
\* which no operation is waiting for a load or a timer
C27_BusyEventuallyCleared ==
    /\ isProcessing ~> ~isProcessing
    /\ [](isProcessing => pending # {})

\* the mask upload that was being decoded has failed and the flag is clear
C27_Witness ==
    /\ ~isProcessing
    /\ pending = {}
    /\ last.op = "handleMaskUpload"
    /\ last.caught = MsgMaskLoadFailed

GuardedOps == {"loadTemplateImage", "handleMaskUpload", "performAlignment",
               "performRecognition"}

GuardMessages == {MsgBusy, MsgNoTemplate, MsgNoMask}

\* a step in which a guard has turned a host operation away
GuardRejected ==
    /\ last' # last
    /\ last'.op \in GuardedOps
    /\ last'.caught \in GuardMessages
    /\ last'.trace = <<>>

\* C28: a guarded host operation rejected by one of its guards (busy,
\* template not loaded, no mask image) changes no state: isProcessing,
\* maskImage and templateLoaded stay as they were, no operation is added to or
\* removed from those in progress, and no aligner operation is invoked: the
\* session is untouched and no buffer is acquired; the warning shown is that
\* of a guard that does reject in the state of the call
C28_RejectionChangesNothing ==
    [][GuardRejected =>
        /\ UNCHANGED << isProcessing, templateLoaded, maskImage, pending, liveBuffers >>
        /\ UNCHANGED alignerVars
        /\ ~last'.returned
        /\ last'.acq = 0
        /\ last'.caught = MsgBusy => isProcessing
        /\ last'.caught = MsgNoTemplate => ~templateLoaded
        /\ last'.caught = MsgNoMask => maskImage.isNull]_vars

\* a recognition asked for before any mask image was uploaded
C28_Witness ==
    /\ last.op = "performRecognition"
    /\ last.caught = MsgNoMask
    /\ templateLoaded
    /\ maskImage.isNull
    /\ ~isProcessing

\* C29: no native buffer is released twice or read after its release, in
\* any aligner operation and on any path: every delete finds its buffer alive
\* and every library call that reads srcMat, a binarization candidate or the
\* Mat preprocessImage returned finds it alive; in particular the Mat
\* preprocessImage returned is alive when the caller reads and releases it,
\* the candidates are alive when selectBestBinary copies the winner, and
\* srcMat is alive when fallbackAlignment reads it
C29_NoDoubleReleaseNoReadAfterRelease ==
    /\ last.misuse = {}
    /\ \A k \in Kinds : last.leak[k] >= 0

\* an alignment that succeeded through the fallback, which read srcMat
C29_Witness ==
    /\ last.op = "alignUserImage"
    /\ last.detect = "failed"
    /\ last.ret.success
    /\ last.leak["mat"] = 1
    /\ last.misuse = {}

====
